---- MODULE Spec2Model ----
(***************************************************************************)
(* A model of tiny_jsdelivr: the version resolver                          *)
(* (FeasibleVersionsList.make), the request handler (handle_path) and the  *)
(* tarball cache (download_and_unpack_tarball, give_file_or_dir).          *)
(*                                                                         *)
(* Strings are sequences of one-character strings, so that the parsing of  *)
(* a version specifier is computed and not assumed.                        *)
(***************************************************************************)
EXTENDS Integers, Sequences, FiniteSets, TLC

(***************************************************************************)
(* Bounds of the model.                                                    *)
(***************************************************************************)
\* Worker threads serving requests concurrently.
NProcs == 2
\* Requests that arrive in a run of the concurrent service.
MaxRequests == 2
\* Members of a package tarball; member m is stored in block m of the file.
NMembers == 2
\* Dist-tags a registry document holds at most.
MaxTags == 2
\* The longest request path of the bounded ones, in characters.
MaxPathLen == 5
\* The most versions, repeats counted, a version table is made for.
MaxListed == 3

(***************************************************************************)
(* Strings.                                                                *)
(***************************************************************************)
Digits == {"0", "1", "2", "3", "4", "5", "6", "7", "8", "9"}

DigitVal(c) ==
    CASE c = "0" -> 0 [] c = "1" -> 1 [] c = "2" -> 2 [] c = "3" -> 3
      [] c = "4" -> 4 [] c = "5" -> 5 [] c = "6" -> 6 [] c = "7" -> 7
      [] c = "8" -> 8 [] c = "9" -> 9

Letters == {"a", "b", "c", "d", "e", "g", "i", "k", "l", "n", "p", "r", "s",
            "t", "x", "X", "v"}

\* str.find(c): the first index of c in s, 0 when there is none.
RECURSIVE FindFrom(_, _, _)
FindFrom(s, c, i) ==
    IF i > Len(s) THEN 0
    ELSE IF s[i] = c THEN i
    ELSE FindFrom(s, c, i + 1)

\* str.split(c): the segments of s between the occurrences of c.
RECURSIVE SplitOn(_, _)
SplitOn(s, c) ==
    LET i == FindFrom(s, c, 1)
    IN  IF i = 0 THEN <<s>>
        ELSE <<SubSeq(s, 1, i - 1)>> \o SplitOn(SubSeq(s, i + 1, Len(s)), c)

\* The segments of s between the occurrences of "||".
RECURSIVE SplitOnBars(_, _)
SplitOnBars(s, i) ==
    IF i >= Len(s) THEN <<s>>
    ELSE IF s[i] = "|" /\ s[i + 1] = "|"
         THEN <<SubSeq(s, 1, i - 1)>>
                  \o SplitOnBars(SubSeq(s, i + 2, Len(s)), 1)
         ELSE SplitOnBars(s, i + 1)

\* The non-empty elements of a sequence of strings.
RECURSIVE NonEmpty(_)
NonEmpty(ss) ==
    IF ss = <<>> THEN <<>>
    ELSE IF Head(ss) = <<>> THEN NonEmpty(Tail(ss))
    ELSE <<Head(ss)>> \o NonEmpty(Tail(ss))

(***************************************************************************)
(* Semantic versions and ranges: what the nodesemver calls of              *)
(* tiny_utils/node_ecosys.py compute, in strict (loose = False) mode, on   *)
(* strings over the characters used here.  An absent result is the empty   *)
(* sequence <<>>, a present result x is <<x>>.                             *)
(***************************************************************************)
\* A numeric identifier: digits, without a leading zero.
IsNumId(s) ==
    /\ s # <<>>
    /\ \A i \in 1..Len(s) : s[i] \in Digits
    /\ Len(s) > 1 => s[1] # "0"

RECURSIVE NumVal(_)
NumVal(s) ==
    IF s = <<>> THEN 0
    ELSE 10 * NumVal(SubSeq(s, 1, Len(s) - 1)) + DigitVal(s[Len(s)])

\* A prerelease identifier: letters, digits and hyphens; numeric without a
\* leading zero.
IsPreId(s) ==
    /\ s # <<>>
    /\ \A i \in 1..Len(s) : s[i] \in Digits \cup Letters \cup {"-"}
    /\ (\A i \in 1..Len(s) : s[i] \in Digits) => IsNumId(s)

\* s without one leading "v".
StripV(s) == IF s # <<>> /\ s[1] = "v" THEN Tail(s) ELSE s

\* nodesemver.parse(s, loose=False): major.minor.patch with an optional
\* "v" before and an optional "-prerelease" after.
ParseVersion(s) ==
    LET t     == StripV(s)
        hy    == FindFrom(t, "-", 1)
        main  == IF hy = 0 THEN t ELSE SubSeq(t, 1, hy - 1)
        pre   == IF hy = 0 THEN <<>> ELSE SubSeq(t, hy + 1, Len(t))
        parts == SplitOn(main, ".")
        ids   == SplitOn(pre, ".")
    IN  IF /\ Len(parts) = 3
           /\ \A i \in 1..3 : IsNumId(parts[i])
           /\ hy # 0 => \A i \in 1..Len(ids) : IsPreId(ids[i])
        THEN << [main |-> <<NumVal(parts[1]), NumVal(parts[2]),
                            NumVal(parts[3])>>,
                 pre  |-> pre] >>
        ELSE <<>>

\* is_valid_version(version_str).
is_valid_version(version_str) == ParseVersion(version_str) # <<>>

\* Precedence of two versions without prerelease: major, minor, patch.
VerLt(a, b) ==
    \/ a[1] < b[1]
    \/ a[1] = b[1] /\ a[2] < b[2]
    \/ a[1] = b[1] /\ a[2] = b[2] /\ a[3] < b[3]

\* One part of a partial version: <<n>> for a number, <<>> for x, X, * or
\* a part left out.  IsXr says whether the text is such a part at all.
IsXr(s) == IsNumId(s) \/ s \in {<<"x">>, <<"X">>, <<"*">>}
XrVal(s) == IF IsNumId(s) THEN <<NumVal(s)>> ELSE <<>>

\* A partial version (1, 1.2, 1.x, 1.2.3, *): its three parts, or <<>>.
ParsePartial(s) ==
    LET parts == SplitOn(StripV(s), ".")
        part(i) == IF i <= Len(parts) THEN XrVal(parts[i]) ELSE <<>>
    IN  IF Len(parts) \in 1..3 /\ \A i \in 1..Len(parts) : IsXr(parts[i])
        THEN << <<part(1), part(2), part(3)>> >>
        ELSE <<>>

RangeOps == << <<">", "=">>, <<"<", "=">>, <<">">>, <<"<">>, <<"=">>,
              <<"^">>, <<"~">> >>

\* The operator a comparator starts with (the longest one), <<>> if none.
RECURSIVE LeadingOp(_, _)
LeadingOp(tok, i) ==
    IF i > Len(RangeOps) THEN <<>>
    ELSE IF /\ Len(tok) >= Len(RangeOps[i])
            /\ SubSeq(tok, 1, Len(RangeOps[i])) = RangeOps[i]
         THEN RangeOps[i]
         ELSE LeadingOp(tok, i + 1)

Cmp(op, v) == [op |-> op, v |-> v]
AnyCmp == Cmp("any", <<0, 0, 0>>)
NoneCmp == Cmp("none", <<0, 0, 0>>)

\* The simple comparators (op is one of > >= < <= = any none) that one
\* comparator with operator op and partial version pv stands for: carets,
\* tildes and x-ranges written out as nodesemver's parse_comparator does.
Desugar(op, pv) ==
    LET xM == pv[1] = <<>>
        xm == xM \/ pv[2] = <<>>
        xp == xm \/ pv[3] = <<>>
        M  == IF xM THEN 0 ELSE pv[1][1]
        m  == IF xm THEN 0 ELSE pv[2][1]
        p  == IF xp THEN 0 ELSE pv[3][1]
        gtlt == IF op = <<"=">> /\ xp THEN <<>> ELSE op
    IN  IF op = <<"^">> THEN
            IF xM THEN <<AnyCmp>>
            ELSE IF xm THEN <<Cmp(">=", <<M, 0, 0>>), Cmp("<", <<M + 1, 0, 0>>)>>
            ELSE IF xp THEN
                IF M = 0
                THEN <<Cmp(">=", <<0, m, 0>>), Cmp("<", <<0, m + 1, 0>>)>>
                ELSE <<Cmp(">=", <<M, m, 0>>), Cmp("<", <<M + 1, 0, 0>>)>>
            ELSE IF M > 0
                THEN <<Cmp(">=", <<M, m, p>>), Cmp("<", <<M + 1, 0, 0>>)>>
            ELSE IF m > 0
                THEN <<Cmp(">=", <<0, m, p>>), Cmp("<", <<0, m + 1, 0>>)>>
            ELSE <<Cmp(">=", <<0, 0, p>>), Cmp("<", <<0, 0, p + 1>>)>>
        ELSE IF op = <<"~">> THEN
            IF xM THEN <<AnyCmp>>
            ELSE IF xm THEN <<Cmp(">=", <<M, 0, 0>>), Cmp("<", <<M + 1, 0, 0>>)>>
            ELSE <<Cmp(">=", <<M, m, p>>), Cmp("<", <<M, m + 1, 0>>)>>
        ELSE IF xM THEN
            IF gtlt \in {<<">">>, <<"<">>} THEN <<NoneCmp>> ELSE <<AnyCmp>>
        ELSE IF gtlt # <<>> /\ xp THEN
            IF gtlt = <<">">> THEN
                IF xm THEN <<Cmp(">=", <<M + 1, 0, 0>>)>>
                ELSE <<Cmp(">=", <<M, m + 1, 0>>)>>
            ELSE IF gtlt = <<"<", "=">> THEN
                IF xm THEN <<Cmp("<", <<M + 1, 0, 0>>)>>
                ELSE <<Cmp("<", <<M, m + 1, 0>>)>>
            ELSE IF gtlt = <<">", "=">> THEN <<Cmp(">=", <<M, m, 0>>)>>
            ELSE <<Cmp("<", <<M, m, 0>>)>>
        ELSE IF xm THEN <<Cmp(">=", <<M, 0, 0>>), Cmp("<", <<M + 1, 0, 0>>)>>
        ELSE IF xp THEN <<Cmp(">=", <<M, m, 0>>), Cmp("<", <<M, m + 1, 0>>)>>
        ELSE IF gtlt = <<">">> THEN <<Cmp(">", <<M, m, p>>)>>
        ELSE IF gtlt = <<"<">> THEN <<Cmp("<", <<M, m, p>>)>>
        ELSE IF gtlt = <<">", "=">> THEN <<Cmp(">=", <<M, m, p>>)>>
        ELSE IF gtlt = <<"<", "=">> THEN <<Cmp("<=", <<M, m, p>>)>>
        ELSE <<Cmp("=", <<M, m, p>>)>>

\* One comparator: <<its simple comparators>>, or <<>> when it is invalid.
ParseComparator(tok) ==
    IF tok = <<>> THEN << <<AnyCmp>> >>
    ELSE LET op == LeadingOp(tok, 1)
             pv == ParsePartial(SubSeq(tok, Len(op) + 1, Len(tok)))
         IN  IF pv = <<>> THEN <<>> ELSE << Desugar(op, pv[1]) >>

\* "A - B": at least A and at most B, partial versions filled in.
HyphenRange(from, to) ==
    LET lo == IF from[1] = <<>> THEN <<>>
              ELSE IF from[2] = <<>>
                  THEN <<Cmp(">=", <<from[1][1], 0, 0>>)>>
              ELSE IF from[3] = <<>>
                  THEN <<Cmp(">=", <<from[1][1], from[2][1], 0>>)>>
              ELSE <<Cmp(">=", <<from[1][1], from[2][1], from[3][1]>>)>>
        hi == IF to[1] = <<>> THEN <<>>
              ELSE IF to[2] = <<>>
                  THEN <<Cmp("<", <<to[1][1] + 1, 0, 0>>)>>
              ELSE IF to[3] = <<>>
                  THEN <<Cmp("<", <<to[1][1], to[2][1] + 1, 0>>)>>
              ELSE <<Cmp("<=", <<to[1][1], to[2][1], to[3][1]>>)>>
    IN  lo \o hi

\* Comparator trim: an operator written apart from its version is joined
\* to it (">= 1.0.0" is ">=1.0.0").
RECURSIVE JoinOps(_)
JoinOps(toks) ==
    IF Len(toks) < 2 THEN toks
    ELSE IF \E i \in 1..Len(RangeOps) : Head(toks) = RangeOps[i]
         THEN JoinOps(<<Head(toks) \o toks[2]>> \o Tail(Tail(toks)))
         ELSE <<Head(toks)>> \o JoinOps(Tail(toks))

\* The comparators of a list of tokens, <<>> when one of them is invalid.
RECURSIVE ParseComparators(_)
ParseComparators(toks) ==
    IF toks = <<>> THEN << <<>> >>
    ELSE LET c    == ParseComparator(Head(toks))
             rest == ParseComparators(Tail(toks))
         IN  IF c = <<>> \/ rest = <<>> THEN <<>>
             ELSE << c[1] \o rest[1] >>

\* One comparator set (the text between two "||"): <<its comparators>>.
ParseSet(s) ==
    LET toks == NonEmpty(SplitOn(s, " "))
    IN  IF /\ Len(toks) = 3
           /\ toks[2] = <<"-">>
           /\ ParsePartial(toks[1]) # <<>>
           /\ ParsePartial(toks[3]) # <<>>
        THEN << HyphenRange(ParsePartial(toks[1])[1],
                            ParsePartial(toks[3])[1]) >>
        ELSE ParseComparators(JoinOps(toks))

RECURSIVE ParseSets(_)
ParseSets(ss) ==
    IF ss = <<>> THEN << <<>> >>
    ELSE LET c    == ParseSet(Head(ss))
             rest == ParseSets(Tail(ss))
         IN  IF c = <<>> \/ rest = <<>> THEN <<>>
             ELSE << <<c[1]>> \o rest[1] >>

\* NodeVersionRange(range_str): <<the comparator sets>>, or <<>> when the
\* constructor raises.
NodeVersionRange(range_str) == ParseSets(SplitOnBars(range_str, 1))

TestCmp(c, v) ==
    CASE c.op = "any"  -> TRUE
      [] c.op = "none" -> FALSE
      [] c.op = "="    -> v = c.v
      [] c.op = ">"    -> VerLt(c.v, v)
      [] c.op = ">="   -> ~VerLt(v, c.v)
      [] c.op = "<"    -> VerLt(v, c.v)
      [] c.op = "<="   -> ~VerLt(c.v, v)

\* version in ver_range (NodeVersionRange.__contains__), for a version
\* string that is a valid version without prerelease.
InRange(version, ver_range) ==
    LET v == ParseVersion(version)[1].main
    IN  \E i \in 1..Len(ver_range) :
            \A j \in 1..Len(ver_range[i]) : TestCmp(ver_range[i][j], v)

(***************************************************************************)
(* Registry documents and the version specifiers of requests.              *)
(* A dict is the sequence of its entries in the order of the document.     *)
(***************************************************************************)
DIST_TAGS == <<"d", "i", "s", "t", "-", "t", "a", "g", "s">>
ALL == <<"a", "l", "l">>
LATEST == <<"l", "a", "t", "e", "s", "t">>
NEXT == <<"n", "e", "x", "t">>
V090 == <<"0", ".", "9", ".", "0">>
V100 == <<"1", ".", "0", ".", "0">>
V150 == <<"1", ".", "5", ".", "0">>
V200 == <<"2", ".", "0", ".", "0">>
ONE_X == <<"1", ".", "x">>
RANGE_1_TO_2 == <<">", "=">> \o V100 \o <<" ", "<">> \o V200
RANGE_OR == <<"<">> \o V100 \o <<" ", "|", "|", " ", ">", "=", " ">> \o V200
RANGE_GT_2 == <<">">> \o V200
PACKAGE == <<"p", "k", "g">>

\* The keys a registry's `versions` may hold, in document order.
VersionKeys == <<V090, V100, V150, V200>>
\* The names a registry's `dist-tags` may hold, in document order, and the
\* versions they may point at.
TagNames == <<LATEST, ALL, DIST_TAGS, V100, ONE_X>>
TagTargets == {V100, V200}

\* The version specifiers requests carry (PathInfo.version_spec_str).
SpecStrs ==
    { DIST_TAGS, ALL, LATEST, NEXT,
      V100, V200, <<"v">> \o V100, V100 \o <<"-", "r", "c">>,
      RANGE_1_TO_2, RANGE_OR, RANGE_GT_2, ONE_X, <<"^">> \o V100,
      V100 \o <<" ", "-", " ", "2">> }

\* The elements of seq at the indices in S, in order.
RECURSIVE Pick(_, _, _)
Pick(seq, S, i) ==
    IF i > Len(seq) THEN <<>>
    ELSE (IF i \in S THEN <<seq[i]>> ELSE <<>>) \o Pick(seq, S, i + 1)

\* ValidRegistryJson: the documents the registry may serve.
Registries ==
    { [versions  |-> Pick(VersionKeys, VS, 1),
       dist_tags |-> Pick([i \in 1..Len(TagNames) |-> <<TagNames[i], tgt[i]>>],
                          TS, 1)] :
        VS \in SUBSET (1..Len(VersionKeys)),
        TS \in {T \in SUBSET (1..Len(TagNames)) : Cardinality(T) <= MaxTags},
        tgt \in [1..Len(TagNames) -> TagTargets] }

Keys(dict) == {dict[i][1] : i \in 1..Len(dict)}
Values(dict) == [i \in 1..Len(dict) |-> dict[i][2]]
Get(dict, k) == dict[CHOOSE i \in 1..Len(dict) : dict[i][1] = k][2]
Elems(seq) == {seq[i] : i \in 1..Len(seq)}

(***************************************************************************)
(* The version resolver.                                                   *)
(***************************************************************************)
FeasibleVersionsList(versions, version_is_designated) ==
    [versions |-> versions, version_is_designated |-> version_is_designated]

\* 'dist-tags': the versions the tags point at, one for each tag.
MakeDistTags(version_spec_str, registry_json) ==
    FeasibleVersionsList(Values(registry_json.dist_tags), FALSE)

\* A dist-tag named "all" wins over the literal.
MakeAll_TagWins(version_spec_str, registry_json) ==
    IF version_spec_str \in Keys(registry_json.dist_tags)
    THEN FeasibleVersionsList(
             <<Get(registry_json.dist_tags, version_spec_str)>>, TRUE)
    ELSE FeasibleVersionsList(registry_json.versions, FALSE)

\* 'all': every key of `versions`.
MakeAll(version_spec_str, registry_json) ==
    FeasibleVersionsList(registry_json.versions, FALSE)

\* The exact version is designated without looking it up.
MakeExact_Unchecked(version_spec_str, registry_json) ==
    FeasibleVersionsList(<<version_spec_str>>, TRUE)

\* An exact version: designated when it is a key of `versions`.
MakeExact(version_spec_str, registry_json) ==
    IF version_spec_str \notin Elems(registry_json.versions)
    THEN FeasibleVersionsList(<<>>, FALSE)
    ELSE FeasibleVersionsList(<<version_spec_str>>, TRUE)

\* A range that matches one version designates it.
MakeRange_SingleDesignated(version_spec_str, registry_json) ==
    LET ver_range == NodeVersionRange(version_spec_str)
        satisfies(ver) == InRange(ver, ver_range[1])
        found == SelectSeq(registry_json.versions, satisfies)
    IN  FeasibleVersionsList(found, Len(found) = 1)

\* A version range: the keys of `versions` in the range, never designated.
MakeRange(version_spec_str, registry_json) ==
    LET ver_range == NodeVersionRange(version_spec_str)
        satisfies(ver) == InRange(ver, ver_range[1])
    IN  FeasibleVersionsList(
            SelectSeq(registry_json.versions, satisfies), FALSE)

\* The tag's name is returned in place of the version it points at.
MakeTag_Name(version_spec_str, registry_json) ==
    IF version_spec_str \notin Keys(registry_json.dist_tags)
    THEN FeasibleVersionsList(<<>>, FALSE)
    ELSE FeasibleVersionsList(<<version_spec_str>>, TRUE)

\* A dist-tag: the version it points at, designated.
MakeTag(version_spec_str, registry_json) ==
    IF version_spec_str \notin Keys(registry_json.dist_tags)
    THEN FeasibleVersionsList(<<>>, FALSE)
    ELSE FeasibleVersionsList(
             <<Get(registry_json.dist_tags, version_spec_str)>>, TRUE)

\* FeasibleVersionsList.make: the first rule that applies decides.
make(version_spec_str, registry_json) ==
    IF version_spec_str = DIST_TAGS
        THEN MakeDistTags(version_spec_str, registry_json)
    ELSE IF version_spec_str = ALL
        THEN MakeAll(version_spec_str, registry_json)
    ELSE IF is_valid_version(version_spec_str)
        THEN MakeExact(version_spec_str, registry_json)
    ELSE IF NodeVersionRange(version_spec_str) # <<>>
        THEN MakeRange(version_spec_str, registry_json)
    ELSE MakeTag(version_spec_str, registry_json)

(***************************************************************************)
(* The request path (tiny_utils/network.py, tiny_utils/general.py).        *)
(***************************************************************************)
\* str.count(c)
Count(s, c) == Cardinality({i \in 1..Len(s) : s[i] = c})

\* sep.join(ss)
RECURSIVE Join(_, _)
Join(ss, sep) ==
    IF ss = <<>> THEN <<>>
    ELSE IF Len(ss) = 1 THEN ss[1]
    ELSE ss[1] \o sep \o Join(Tail(ss), sep)

\* str(PurePosixPath(path)), for a path that begins with "/": empty and "."
\* segments are dropped, and so is a trailing "/"; the root is "//" when
\* the path begins with exactly two slashes, "/" otherwise.
PurePosixPath(path) ==
    LET IsPart(seg) == seg # <<>> /\ seg # <<".">>
        parts == SelectSeq(SplitOn(path, "/"), IsPart)
        root == IF /\ Len(path) >= 2 /\ path[2] = "/"
                   /\ (Len(path) = 2 \/ path[3] # "/")
                THEN <<"/", "/">> ELSE <<"/">>
    IN  root \o Join(parts, <<"/">>)

\* The path does not remember whether it was written as a directory.
PurePosixPathThatMightBeDir_Forgets(path) ==
    [str |-> PurePosixPath(path), is_dir |-> FALSE]

\* PurePosixPathThatMightBeDir(path): the path, and whether it ended with
\* "/" when it was created.
PurePosixPathThatMightBeDir(path) ==
    [str |-> PurePosixPath(path), is_dir |-> path[Len(path)] = "/"]

RequestNotValidError(status_code, message) ==
    [raised |-> "RequestNotValidError", status_code |-> status_code,
     message |-> message]

PathInfo(package_name, version_spec_str, obj_absolute_path) ==
    [raised |-> "none", package_name |-> package_name,
     version_spec_str |-> version_spec_str,
     obj_absolute_path |-> obj_absolute_path]

\* The head is split at its first "@", however many there are.
NameAndVersion_FirstAt(head) ==
    LET at == FindFrom(head, "@", 1)
        package_name == IF at = 0 THEN head ELSE SubSeq(head, 1, at - 1)
        version_spec_str ==
            IF at = 0 THEN LATEST ELSE SubSeq(head, at + 1, Len(head))
    IN  IF package_name = <<>>
        THEN RequestNotValidError(400, "package_name is empty")
        ELSE IF version_spec_str = <<>>
        THEN RequestNotValidError(400, "version_spec_str is empty")
        ELSE PathInfo(package_name, version_spec_str, <<>>)

\* match head.count('@'): the package name and the version specification,
\* 'latest' when there is none.
NameAndVersion(head) ==
    IF Count(head, "@") = 0
    THEN IF head = <<>>
         THEN RequestNotValidError(400, "package_name is empty")
         ELSE PathInfo(head, LATEST, <<>>)
    ELSE IF Count(head, "@") = 1
    THEN LET parts == SplitOn(head, "@")
         IN  IF parts[1] = <<>>
             THEN RequestNotValidError(400, "package_name is empty")
             ELSE IF parts[2] = <<>>
             THEN RequestNotValidError(400, "version_spec_str is empty")
             ELSE PathInfo(parts[1], parts[2], <<>>)
    ELSE RequestNotValidError(400, "too many '@'s in name and version part")

\* PathInfo.make(path), for a path that begins with "/".
PathInfo_make(path) ==
    LET slash_ind == FindFrom(path, "/", 2)
        obj_absolute_path ==
            IF slash_ind = 0 THEN <<>>
            ELSE <<PurePosixPathThatMightBeDir(
                       SubSeq(path, slash_ind, Len(path)))>>
        head == SubSeq(path, 2,
                       IF slash_ind = 0 THEN Len(path) ELSE slash_ind - 1)
        name_ver == NameAndVersion(head)
    IN  IF name_ver.raised # "none" THEN name_ver
        ELSE PathInfo(name_ver.package_name, name_ver.version_spec_str,
                      obj_absolute_path)

\* The paths of requests: "/" and up to MaxPathLen - 1 more characters, the
\* path of PathInfo.make's docstring, and "/pkg".
PathChars == {"/", "@", "a", "."}
LODASH_PATH ==
    <<"/", "l", "o", "d", "a", "s", "h", "@", ">", "=", "1", ".", "0", ".",
      "0", "/", "l", "i", "b", "/">>
Paths ==
    {<<"/">> \o t : t \in UNION {[1..n -> PathChars] : n \in 0..(MaxPathLen - 1)}}
        \cup {LODASH_PATH, <<"/">> \o PACKAGE}

(***************************************************************************)
(* The version tables (tiny_htmls.py, tiny_utils/general.py).              *)
(***************************************************************************)
\* semver_cmp: nodesemver.compare on valid versions without prerelease.
semver_cmp(version1, version2) ==
    LET v1 == ParseVersion(version1)[1].main
        v2 == ParseVersion(version2)[1].main
    IN  IF VerLt(v1, v2) THEN -1
        ELSE IF VerLt(v2, v1) THEN 1
        ELSE 0

\* A comparator as a value: semver_cmp on the versions of the documents.
SemverCmp ==
    [xy \in Elems(VersionKeys) \X Elems(VersionKeys) |->
        semver_cmp(xy[1], xy[2])]

\* reverse_cmp(cmp): the comparator revcmp, revcmp(x, y) = -cmp(y, x).
reverse_cmp(cmp) == [xy \in DOMAIN cmp |-> -cmp[<<xy[2], xy[1]>>]]

\* The comparator of versions.sort: cmp_to_key(reverse_cmp(semver_cmp)).
TableCmp(x, y) == reverse_cmp(SemverCmp)[<<x, y>>]

\* list.sort(key=cmp_to_key(...)): a stable sort; x goes before the first
\* element it compares less than.
RECURSIVE Insert(_, _)
Insert(x, sorted) ==
    IF sorted = <<>> THEN <<x>>
    ELSE IF TableCmp(x, Head(sorted)) < 0 THEN <<x>> \o sorted
    ELSE <<Head(sorted)>> \o Insert(x, Tail(sorted))
RECURSIVE Sort(_)
Sort(list) ==
    IF list = <<>> THEN <<>>
    ELSE Insert(list[Len(list)], Sort(SubSeq(list, 1, Len(list) - 1)))

\* list(set(versions)): the versions without repeats, in any order.
Orders(S) ==
    {f \in [1..Cardinality(S) -> S] :
        \A i, j \in 1..Cardinality(S) : f[i] = f[j] => i = j}

\* The lists of versions a table is made for.
VersionLists ==
    UNION {[1..n -> Elems(VersionKeys)] : n \in 0..MaxListed}

(***************************************************************************)
(* The service: worker threads run handle_path; the cache folder is the    *)
(* only state they share.                                                  *)
(***************************************************************************)
VARIABLES
    registry,      \* the document the registry serves for the package
    workers,       \* the threads that serve requests
    pending,       \* the number of requests that have not arrived yet
    wanted,        \* the version specifiers the requests of this run carry
    pc,            \* pc[p]: where worker p stands in handle_path
    spec,          \* spec[p]: path_info.version_spec_str
    feasible,      \* feasible[p]: feasible_vers
    name,          \* name[p]: local_name
    obj,           \* obj[p]: path_info.obj_absolute_path, once it is read
    flag,          \* flag[p]: flag_new_dir_or_file_cached
    pos,           \* pos[p]: blocks written (f) or members extracted (tar)
    log,           \* log[p]: the I/O download_and_unpack_tarball has done
    late,          \* late[p]: the call began after one for its name returned
    resp,          \* resp[p]: the response, or the failure, of the request
    tarball,       \* tarball[n]: the file CACHE_FOLDER/n.tgz
    dir,           \* dir[n]: the directory CACHE_FOLDER/n
    materialized,  \* the names for which a call has returned
    abs_path,      \* the path PathInfo.make is called with
    path_info,     \* what PathInfo.make gave for abs_path
    unsorted,      \* the versions _vers_tags_table is called with
    table          \* the versions of the table's rows, first row first

vars == <<registry, workers, pending, wanted, pc, spec, feasible, name, obj, flag, pos,
          log, late, resp, tarball, dir, materialized,
          abs_path, path_info, unsorted, table>>

Procs == 1..NProcs
Members == 1..NMembers

\* local_name: "<package>-<version>".
LocalName(package_name, exact_version) ==
    package_name \o <<"-">> \o exact_version
LocalNames ==
    {LocalName(PACKAGE, v) : v \in Elems(VersionKeys) \cup TagTargets}

\* A file or directory that does not exist, and a request without one.
Absent == [exists |-> FALSE, data |-> {}]
NoResp == [status |-> 0, kind |-> "none", body |-> <<>>]
NoFeasible == FeasibleVersionsList(<<>>, FALSE)
\* The object paths of requests: None (the entry file), a file of the
\* package (member m), a file the package does not hold (member 0), or the
\* package's directory.
NoObj == [kind |-> "unread", m |-> 0]
Objs == {[kind |-> "none", m |-> 0], [kind |-> "dir", m |-> 0]}
            \cup {[kind |-> "file", m |-> m] : m \in 0..NMembers}

make_response_altered(content, status_code, kind) ==
    [status |-> status_code, kind |-> kind, body |-> content]
\* An exception that is no RequestNotValidError leaves delivr: a 500.
Failure(exception) == [status |-> 500, kind |-> exception, body |-> <<>>]

TypeOK ==
    /\ workers \subseteq Procs
    /\ pending \in 0..MaxRequests
    /\ wanted \subseteq SpecStrs
    /\ pc \in [Procs -> {"idle", "resolved", "check_tar", "fetch", "open",
                         "write", "check_dir", "tar_open", "extract",
                         "report", "give", "done"}]
    /\ spec \in [Procs -> SpecStrs]
    /\ name \in [Procs -> LocalNames]
    /\ obj \in [Procs -> Objs \cup {NoObj}]
    /\ flag \in [Procs -> BOOLEAN]
    /\ pos \in [Procs -> 0..NMembers]
    /\ late \in [Procs -> BOOLEAN]
    /\ tarball \in [LocalNames -> [exists : BOOLEAN, data : SUBSET Members]]
    /\ dir \in [LocalNames -> [exists : BOOLEAN, data : SUBSET Members]]
    /\ materialized \subseteq LocalNames

\* A cache entry that an earlier call has written and extracted in full.
Cached == [exists |-> TRUE, data |-> Members]

\* The workers are idle; the cache folder holds the entries in `cached`.
InitLocals(cached) ==
    /\ pc = [p \in Procs |-> "idle"]
    /\ spec = [p \in Procs |-> ALL]
    /\ feasible = [p \in Procs |-> NoFeasible]
    /\ name = [p \in Procs |-> LocalName(PACKAGE, V100)]
    /\ obj = [p \in Procs |-> NoObj]
    /\ flag = [p \in Procs |-> FALSE]
    /\ pos = [p \in Procs |-> 0]
    /\ log = [p \in Procs |-> <<>>]
    /\ late = [p \in Procs |-> FALSE]
    /\ resp = [p \in Procs |-> NoResp]
    /\ tarball = [n \in LocalNames |-> IF n \in cached THEN Cached ELSE Absent]
    /\ dir = [n \in LocalNames |-> IF n \in cached THEN Cached ELSE Absent]
    /\ materialized = cached

\* No path is being parsed and no table rendered: the runs of the service
\* take the parsed request and the rendered page as given.
NotParsed == [raised |-> "unparsed"]
NotRendered == <<"unrendered">>
NoParse == abs_path = <<>> /\ path_info = NotParsed
NoTable == unsorted = <<>> /\ table = NotRendered

\* The registry document of the concurrent runs: two versions, and
\* "latest" pointing at the newer one.
TypicalRegistry ==
    [versions |-> <<V100, V200>>, dist_tags |-> << <<LATEST, V200>> >>]

\* All workers serve requests for one package with a typical document: for
\* two exact versions (one by its tag), a range and an unknown tag.
Init ==
    /\ registry = TypicalRegistry
    /\ workers = Procs
    /\ pending = MaxRequests
    /\ wanted = {V100, LATEST, RANGE_1_TO_2, NEXT}
    /\ InitLocals({})
    /\ NoParse /\ NoTable

\* One worker serves one request, with any specifier, for a package with
\* any of the registry documents; the cache folder is empty, or holds
\* version 2.0.0 from an earlier run of the service.
InitResolve ==
    /\ registry \in Registries
    /\ workers = {1}
    /\ pending = 1
    /\ wanted = SpecStrs
    /\ \E cached \in {{}, {LocalName(PACKAGE, V200)}} : InitLocals(cached)
    /\ NoParse /\ NoTable

(***************************************************************************)
(* handle_path, one action for each step between two accesses to the       *)
(* registry or to the cache folder.                                        *)
(***************************************************************************)
Logged(p, op) == log' = [log EXCEPT ![p] = Append(@, op)]

\* The request ends: with a response, or with an exception (a 500).
Return(p, response) ==
    /\ pc' = [pc EXCEPT ![p] = "done"]
    /\ resp' = [resp EXCEPT ![p] = response]

\* handle_path up to FeasibleVersionsList.make: the path is parsed, the
\* registry document fetched (get_registry_json) and the versions resolved.
Start(p) ==
    /\ p \in workers
    /\ pc[p] \in {"idle", "done"}
    /\ pending > 0
    /\ pending' = pending - 1
    /\ obj' = [obj EXCEPT ![p] = NoObj]
    /\ flag' = [flag EXCEPT ![p] = FALSE]
    /\ pos' = [pos EXCEPT ![p] = 0]
    /\ log' = [log EXCEPT ![p] = <<>>]
    /\ late' = [late EXCEPT ![p] = FALSE]
    /\ \E s \in wanted, status \in {"ok", "not_found", "error"} :
        /\ spec' = [spec EXCEPT ![p] = s]
        /\ IF status = "ok"
           THEN /\ feasible' = [feasible EXCEPT ![p] = make(s, registry)]
                /\ pc' = [pc EXCEPT ![p] = "resolved"]
                /\ resp' = [resp EXCEPT ![p] = NoResp]
           ELSE /\ feasible' = [feasible EXCEPT ![p] = NoFeasible]
                /\ Return(p, IF status = "not_found"
                             THEN make_response_altered(<<>>, 404,
                                                        "package_not_found")
                             ELSE Failure("HTTPError"))
    /\ UNCHANGED <<abs_path, path_info, unsorted, table,
                 registry, workers, wanted, name, tarball, dir, materialized>>

\* No version satisfies the requirement: a bare 404 and no listing.
Dispatch_NoFallback(p) ==
    /\ pc[p] = "resolved"
    /\ IF Len(feasible[p].versions) = 0
       THEN /\ Return(p, make_response_altered(<<>>, 404, "not_found"))
            /\ UNCHANGED <<name, late>>
       ELSE IF ~feasible[p].version_is_designated
       THEN /\ Return(p, make_response_altered(feasible[p].versions, 200,
                                               "versions_page"))
            /\ UNCHANGED <<name, late>>
       ELSE LET local_name == LocalName(PACKAGE, feasible[p].versions[1])
            IN  /\ name' = [name EXCEPT ![p] = local_name]
                /\ late' = [late EXCEPT ![p] = local_name \in materialized]
                /\ pc' = [pc EXCEPT ![p] = "check_tar"]
                /\ UNCHANGED resp
    /\ UNCHANGED <<abs_path, path_info, unsorted, table,
                 registry, workers, pending, wanted, spec, feasible, obj,
                   flag, pos, log, tarball, dir, materialized>>

\* handle_path from the resolved versions to the call of
\* download_and_unpack_tarball.
Dispatch(p) ==
    /\ pc[p] = "resolved"
    /\ IF Len(feasible[p].versions) = 0
       THEN /\ Return(p, make_response_altered(registry.versions, 400,
                                               "all_versions_page"))
            /\ UNCHANGED <<name, late>>
       ELSE IF ~feasible[p].version_is_designated
       THEN /\ Return(p, make_response_altered(feasible[p].versions, 200,
                                               "versions_page"))
            /\ UNCHANGED <<name, late>>
       ELSE LET local_name == LocalName(PACKAGE, feasible[p].versions[1])
            IN  /\ name' = [name EXCEPT ![p] = local_name]
                /\ late' = [late EXCEPT ![p] = local_name \in materialized]
                /\ pc' = [pc EXCEPT ![p] = "check_tar"]
                /\ UNCHANGED resp
    /\ UNCHANGED <<abs_path, path_info, unsorted, table,
                 registry, workers, pending, wanted, spec, feasible, obj, flag, pos,
                   log, tarball, dir, materialized>>

\* if not os.path.exists(tarball_path)
CheckTarball(p) ==
    /\ pc[p] = "check_tar"
    /\ Logged(p, "exists")
    /\ pc' = [pc EXCEPT ![p] =
                 IF tarball[name[p]].exists THEN "check_dir" ELSE "fetch"]
    /\ UNCHANGED <<abs_path, path_info, unsorted, table,
                 registry, workers, pending, wanted, spec, feasible, name, obj, flag,
                   pos, late, resp, tarball, dir, materialized>>

\* The file is created before the fetch has answered.
Fetch_OpenFirst(p) ==
    /\ pc[p] = "fetch"
    /\ Logged(p, "fetch")
    /\ tarball' = [tarball EXCEPT ![name[p]].exists = TRUE]
    /\ \E ok \in BOOLEAN :
        IF ok THEN /\ pc' = [pc EXCEPT ![p] = "open"]
                   /\ UNCHANGED resp
              ELSE Return(p, Failure("HTTPError"))
    /\ UNCHANGED <<abs_path, path_info, unsorted, table,
                 registry, workers, pending, wanted, spec, feasible, name,
                   obj, flag, pos, late, dir, materialized>>

\* The tarball's URL is looked up and fetched; raise_for_status.
Fetch(p) ==
    /\ pc[p] = "fetch"
    /\ IF feasible[p].versions[1] \notin Elems(registry.versions)
       THEN /\ Return(p, Failure("KeyError"))
            /\ UNCHANGED log
       ELSE /\ Logged(p, "fetch")
            /\ \E ok \in BOOLEAN :
                IF ok THEN /\ pc' = [pc EXCEPT ![p] = "open"]
                           /\ UNCHANGED resp
                      ELSE Return(p, Failure("HTTPError"))
    /\ UNCHANGED <<abs_path, path_info, unsorted, table,
                 registry, workers, pending, wanted, spec, feasible, name, obj, flag,
                   pos, late, tarball, dir, materialized>>

\* open(tarball_path, 'wb'): the file is created, or truncated.
Open(p) ==
    /\ pc[p] = "open"
    /\ tarball' = [tarball EXCEPT ![name[p]] = [exists |-> TRUE, data |-> {}]]
    /\ pos' = [pos EXCEPT ![p] = 0]
    /\ Logged(p, "write")
    /\ pc' = [pc EXCEPT ![p] = "write"]
    /\ UNCHANGED <<abs_path, path_info, unsorted, table,
                 registry, workers, pending, wanted, spec, feasible, name, obj, flag,
                   late, resp, dir, materialized>>

\* f.write(r.content): the blocks reach the file one or several at a time,
\* each at its own offset; after the last one the file is closed.
Write(p) ==
    /\ pc[p] = "write"
    /\ \E k \in (pos[p] + 1)..NMembers :
        /\ tarball' = [tarball EXCEPT ![name[p]].data =
                          @ \cup ((pos[p] + 1)..k)]
        /\ IF k = NMembers
           THEN /\ pos' = [pos EXCEPT ![p] = 0]
                /\ flag' = [flag EXCEPT ![p] = TRUE]
                /\ pc' = [pc EXCEPT ![p] = "check_dir"]
           ELSE /\ pos' = [pos EXCEPT ![p] = k]
                /\ UNCHANGED <<flag, pc>>
    /\ UNCHANGED <<abs_path, path_info, unsorted, table,
                 registry, workers, pending, wanted, spec, feasible, name, obj, log,
                   late, resp, dir, materialized>>

\* The tarball is extracted whether the directory exists or not.
CheckDir_NoTest(p) ==
    /\ pc[p] = "check_dir"
    /\ Logged(p, "exists")
    /\ pc' = [pc EXCEPT ![p] = "tar_open"]
    /\ UNCHANGED <<abs_path, path_info, unsorted, table,
                 registry, workers, pending, wanted, spec, feasible, name,
                   obj, flag, pos, late, resp, tarball, dir, materialized>>

\* if not os.path.exists(tarball_unpacked_dir_path)
CheckDir(p) ==
    /\ pc[p] = "check_dir"
    /\ Logged(p, "exists")
    /\ pc' = [pc EXCEPT ![p] =
                 IF dir[name[p]].exists THEN "report" ELSE "tar_open"]
    /\ UNCHANGED <<abs_path, path_info, unsorted, table,
                 registry, workers, pending, wanted, spec, feasible, name, obj, flag,
                   pos, late, resp, tarball, dir, materialized>>

\* tarfile.open(tarball_path): the first block of the file is read, a
\* ReadError is raised when it is not there.
TarOpen(p) ==
    /\ pc[p] = "tar_open"
    /\ Logged(p, "extract")
    /\ IF 1 \in tarball[name[p]].data
       THEN /\ pc' = [pc EXCEPT ![p] = "extract"]
            /\ UNCHANGED resp
       ELSE Return(p, Failure("ReadError"))
    /\ pos' = [pos EXCEPT ![p] = 0]
    /\ UNCHANGED <<abs_path, path_info, unsorted, table,
                 registry, workers, pending, wanted, spec, feasible, name, obj, flag,
                   late, tarball, dir, materialized>>

\* tar.extractall(tarball_unpacked_dir_path), member by member: the next
\* member is read from the file and written under the directory, which the
\* first member creates. After the last one the flag is set.
Extract(p) ==
    /\ pc[p] = "extract"
    /\ LET m == pos[p] + 1
       IN  IF m \in tarball[name[p]].data
           THEN /\ dir' = [dir EXCEPT ![name[p]] =
                              [exists |-> TRUE, data |-> @.data \cup {m}]]
                /\ IF m = NMembers
                   THEN /\ pos' = [pos EXCEPT ![p] = 0]
                        /\ flag' = [flag EXCEPT ![p] = TRUE]
                        /\ pc' = [pc EXCEPT ![p] = "report"]
                   ELSE /\ pos' = [pos EXCEPT ![p] = m]
                        /\ UNCHANGED <<flag, pc>>
                /\ UNCHANGED resp
           ELSE /\ Return(p, Failure("ReadError"))
                /\ UNCHANGED <<dir, pos, flag>>
    /\ UNCHANGED <<abs_path, path_info, unsorted, table,
                 registry, workers, pending, wanted, spec, feasible, name, obj, log,
                   late, tarball, materialized>>

\* The size of the cache folder is checked on every call.
Report_Always(p) ==
    /\ pc[p] = "report"
    /\ Logged(p, "size_check")
    /\ materialized' = materialized \cup {name[p]}
    /\ pc' = [pc EXCEPT ![p] = "give"]
    /\ UNCHANGED <<abs_path, path_info, unsorted, table,
                 registry, workers, pending, wanted, spec, feasible, name,
                   obj, flag, pos, late, resp, tarball, dir>>

\* if flag_new_dir_or_file_cached: report_cache_folder_size(app.logger);
\* download_and_unpack_tarball returns.
Report(p) ==
    /\ pc[p] = "report"
    /\ IF flag[p] THEN Logged(p, "size_check") ELSE UNCHANGED log
    /\ materialized' = materialized \cup {name[p]}
    /\ pc' = [pc EXCEPT ![p] = "give"]
    /\ UNCHANGED <<abs_path, path_info, unsorted, table,
                 registry, workers, pending, wanted, spec, feasible, name, obj, flag,
                   pos, late, resp, tarball, dir>>

NotFound == make_response_altered(<<>>, 404, "not_found")

\* give_entry_file: package.json is member 1 and names the last member as
\* the entry file.
give_entry_file(local_name) ==
    IF 1 \notin dir[local_name].data THEN NotFound
    ELSE IF NMembers \notin dir[local_name].data THEN NotFound
    ELSE make_response_altered(<<>>, 200, "entry_file")

\* give_directory, for the directory that holds the package's members.
give_directory(local_name) ==
    IF dir[local_name].data = {} THEN NotFound
    ELSE make_response_altered(
             Pick([m \in Members |-> m], dir[local_name].data, 1),
             200, "dir_page")

give_file(o, local_name) ==
    IF o.m \notin dir[local_name].data THEN NotFound
    ELSE make_response_altered(<<>>, 200, "file")

give_file_or_dir(o, local_name) ==
    IF o.kind = "none" THEN give_entry_file(local_name)
    ELSE IF o.kind = "dir" THEN give_directory(local_name)
    ELSE give_file(o, local_name)

\* return give_file_or_dir(path_info, local_name), for the object path the
\* request came with.
Give(p) ==
    /\ pc[p] = "give"
    /\ \E o \in Objs :
        /\ obj' = [obj EXCEPT ![p] = o]
        /\ Return(p, give_file_or_dir(o, name[p]))
    /\ UNCHANGED <<abs_path, path_info, unsorted, table,
                 registry, workers, pending, wanted, spec, feasible, name, flag, pos,
                   log, late, tarball, dir, materialized>>

Next ==
    \E p \in Procs :
        \/ Start(p)
        \/ Dispatch(p)
        \/ CheckTarball(p)
        \/ Fetch(p)
        \/ Open(p)
        \/ Write(p)
        \/ CheckDir(p)
        \/ TarOpen(p)
        \/ Extract(p)
        \/ Report(p)
        \/ Give(p)

Spec == Init /\ [][Next]_vars

SpecResolve == InitResolve /\ [][Next]_vars

(***************************************************************************)
(* PathInfo.make on its own: one path is parsed.                           *)
(***************************************************************************)
\* No request is being served and the cache folder is empty.
ServiceIdle ==
    /\ registry = TypicalRegistry
    /\ workers = {}
    /\ pending = 0
    /\ wanted = {}
    /\ InitLocals({})

InitParse ==
    /\ abs_path \in Paths
    /\ path_info = NotParsed
    /\ NoTable
    /\ ServiceIdle

\* path_info = PathInfo.make(abs_path)
ParsePath ==
    /\ abs_path # <<>>
    /\ path_info = NotParsed
    /\ path_info' = PathInfo_make(abs_path)
    /\ UNCHANGED <<abs_path, unsorted, table, registry, workers, pending,
                   wanted, pc, spec, feasible, name, obj, flag, pos, log,
                   late, resp, tarball, dir, materialized>>

NextParse == ParsePath

SpecParse == InitParse /\ [][NextParse]_vars

(***************************************************************************)
(* _vers_tags_table on its own: the rows of one table are put in order.    *)
(***************************************************************************)
InitSort ==
    /\ unsorted \in VersionLists
    /\ table = NotRendered
    /\ NoParse
    /\ ServiceIdle

\* versions = list(set(versions)); versions.sort(key=...)
SortTable ==
    /\ table = NotRendered
    /\ \E versions \in Orders(Elems(unsorted)) : table' = Sort(versions)
    /\ UNCHANGED <<abs_path, path_info, unsorted, registry, workers, pending,
                   wanted, pc, spec, feasible, name, obj, flag, pos, log,
                   late, resp, tarball, dir, materialized>>

NextSort == SortTable

SpecSort == InitSort /\ [][NextSort]_vars

(***************************************************************************)
(* The properties.                                                         *)
(***************************************************************************)
\* download_and_unpack_tarball has returned to handle_path.
Returned(p) == pc[p] = "give" \/ (pc[p] = "done" /\ obj[p] # NoObj)
\* The request has ended with the exception `exception` of a call of
\* download_and_unpack_tarball.
Raised(p, exception) ==
    pc[p] = "done" /\ resp[p].kind = exception /\ log[p] # <<>>
Did(p, op) == op \in Elems(log[p])
IsPrefix(s, t) == Len(s) <= Len(t) /\ s = SubSeq(t, 1, Len(s))
InDownload(p) ==
    pc[p] \in {"check_tar", "fetch", "open", "write", "check_dir",
               "tar_open", "extract", "report"}

\* C1: a call of download_and_unpack_tarball that begins after a call for
\* the same local name has returned does two existence checks and nothing
\* else: no fetch, no write, no extraction, no size check.
C1_LaterCallOnlyChecksExistence ==
    \A p \in Procs :
        late[p] =>
            /\ pc[p] \notin {"fetch", "open", "write", "tar_open", "extract"}
            /\ IsPrefix(log[p], <<"exists", "exists">>)
            /\ Returned(p) => log[p] = <<"exists", "exists">>

\* A later call for a name has returned.
C1_Witness ==
    \E p \in Procs :
        late[p] /\ pc[p] = "done" /\ obj[p] # NoObj /\ pending = 0

\* C2: when all workers have finished and a call for a name has ended
\* without a failure of the upstream, the cache holds the complete tarball
\* and the full extraction directory of that name.
C2_ConcurrentCallsEndComplete ==
    \A n \in LocalNames :
        ( /\ \A p \in Procs : pc[p] \in {"idle", "done"}
          /\ \E p \in Procs :
                /\ pc[p] = "done" /\ name[p] = n /\ log[p] # <<>>
                /\ resp[p].kind \notin {"HTTPError", "KeyError"} )
        => tarball[n] = Cached /\ dir[n] = Cached

\* C3: a call that opens or extracts the tarball reads a file that is
\* written in full.
C3_ExtractOnlyFromCompleteTarball ==
    \A p \in Procs :
        pc[p] \in {"tar_open", "extract"} => tarball[name[p]] = Cached

\* The object is in the tarball: the entry file, the package's directory,
\* or one of its members.
InTarball(o) == o.kind \in {"none", "dir"} \/ o.m \in Members

\* C4: a request that found the extraction directory present, and so did
\* not extract, is not answered 404 for an object of the tarball.
C4_CachedDirServesTarballContents ==
    \A p \in Procs :
        ( /\ pc[p] = "done" /\ obj[p] # NoObj
          /\ ~Did(p, "extract")
          /\ InTarball(obj[p]) )
        => resp[p].status # 404

\* C5: a call whose tarball fetch fails has checked the tarball's existence
\* and fetched once, and nothing else; the step that fails leaves the cache
\* as it is; and a call that finds no tarball file goes on to fetch it.
C5_FetchFailureLeavesCacheAlone ==
    /\ [](\A p \in Procs :
            Raised(p, "HTTPError") => log[p] = <<"exists", "fetch">>)
    /\ [][\A p \in Procs :
            (pc[p] = "fetch" /\ pc'[p] = "done")
                => tarball' = tarball /\ dir' = dir]_vars
    /\ [][\A p \in Procs :
            (pc[p] = "check_tar" /\ pc'[p] # "check_tar"
                /\ ~tarball[name[p]].exists)
                => pc'[p] = "fetch"]_vars

\* A tarball fetch has failed; the tarball is still absent and the other
\* worker, asked for the same version, is about to fetch it.
C5_Witness ==
    \E p, q \in Procs :
        /\ Raised(p, "HTTPError")
        /\ ~tarball[name[p]].exists /\ ~dir[name[p]].exists
        /\ q # p /\ name[q] = name[p] /\ pc[q] = "fetch"

\* The call downloaded the tarball or extracted it.
NewWork(p) == Did(p, "write") \/ Did(p, "extract")

\* C6: the size of the cache folder is checked only in a call that
\* downloaded or extracted, and a call that has returned has checked it
\* if and only if it downloaded or extracted.
C6_SizeCheckIffNewWork ==
    \A p \in Procs :
        /\ Did(p, "size_check") => NewWork(p)
        /\ Returned(p) => (Did(p, "size_check") <=> NewWork(p))

\* One call has returned after new work and a size check, another on a
\* full cache hit.
C6_Witness ==
    \E p, q \in Procs :
        /\ Returned(p) /\ Did(p, "size_check") /\ NewWork(p)
        /\ Returned(q) /\ log[q] = <<"exists", "exists">>

\* C7: a valid exact version resolves to itself, designated, when it is a
\* key of `versions`, and to nothing otherwise, whatever the dist-tags are.
C7_ExactVersion ==
    \A p \in Procs :
        (pc[p] = "resolved" /\ is_valid_version(spec[p])) =>
            feasible[p] =
                IF \E i \in 1..Len(registry.versions) :
                       registry.versions[i] = spec[p]
                THEN [versions |-> <<spec[p]>>, version_is_designated |-> TRUE]
                ELSE [versions |-> <<>>, version_is_designated |-> FALSE]

\* Version 1.0.0 is published, a dist-tag named "1.0.0" points at 2.0.0,
\* and "1.0.0" has been resolved.
C7_Witness ==
    \E p \in Procs :
        /\ pc[p] = "resolved" /\ spec[p] = V100
        /\ V100 \in Elems(registry.versions)
        /\ \E i \in 1..Len(registry.dist_tags) :
               registry.dist_tags[i] = <<V100, V200>>

\* C8 as stated: the name of any dist-tag of the document resolves to the
\* version the tag points at, designated.
C8_EveryTagDesignatesItsVersion ==
    \A p \in Procs :
        pc[p] = "resolved" =>
            \A i \in 1..Len(registry.dist_tags) :
                registry.dist_tags[i][1] = spec[p] =>
                    feasible[p] = [versions |-> <<registry.dist_tags[i][2]>>,
                                   version_is_designated |-> TRUE]

\* The specifier reaches the dist-tag rule: it is no literal, no valid
\* version and no range.
IsTagSpec(s) ==
    /\ s \notin {DIST_TAGS, ALL}
    /\ ~is_valid_version(s)
    /\ NodeVersionRange(s) = <<>>

\* C8, amended: the name of a dist-tag of the document resolves to the
\* version the tag points at, designated, when the name is not "all" or
\* "dist-tags", not a valid exact version and not a semver range.
C8_TagDesignatesItsVersion ==
    \A p \in Procs :
        (pc[p] = "resolved" /\ IsTagSpec(spec[p])) =>
            \A i \in 1..Len(registry.dist_tags) :
                registry.dist_tags[i][1] = spec[p] =>
                    feasible[p] = [versions |-> <<registry.dist_tags[i][2]>>,
                                   version_is_designated |-> TRUE]

\* "latest" is a dist-tag of the document and has been resolved.
C8_Witness ==
    \E p \in Procs :
        /\ pc[p] = "resolved" /\ spec[p] = LATEST
        /\ \E i \in 1..Len(registry.dist_tags) :
               registry.dist_tags[i][1] = LATEST

\* The specifier reaches the range rule: it is no literal and no valid
\* version, and it parses as a range.
IsRangeSpec(s) ==
    /\ s \notin {DIST_TAGS, ALL}
    /\ ~is_valid_version(s)
    /\ NodeVersionRange(s) # <<>>

\* What the ranges among the specifiers match of 0.9.0, 1.0.0, 1.5.0 and
\* 2.0.0 by the rules of semantic versioning.
ExpectedMatches(s) ==
    CASE s = RANGE_1_TO_2 -> {V100, V150}
      [] s = RANGE_OR -> {V090, V200}
      [] s = RANGE_GT_2 -> {}
      [] s = ONE_X -> {V100, V150}
      [] s = <<"^">> \o V100 -> {V100, V150}
      [] s = V100 \o <<" ", "-", " ", "2">> -> {V100, V150, V200}

\* C9: a range resolves to the keys of `versions` it matches, in their
\* order and never designated; the request does no cache I/O and is
\* answered with the listing of the matching versions or, when there are
\* none, with the fallback listing of all versions.
C9_RangeListsMatches ==
    \A p \in Procs :
        IsRangeSpec(spec[p]) =>
            LET Matches(v) == v \in ExpectedMatches(spec[p])
                found == SelectSeq(registry.versions, Matches)
            IN  /\ pc[p] = "resolved" =>
                       feasible[p] = [versions |-> found,
                                      version_is_designated |-> FALSE]
                /\ ~InDownload(p) /\ pc[p] # "give" /\ log[p] = <<>>
                /\ (pc[p] = "done" /\ resp[p].status \in {200, 400}) =>
                       resp[p] = IF found = <<>>
                                 THEN [status |-> 400,
                                       kind |-> "all_versions_page",
                                       body |-> registry.versions]
                                 ELSE [status |-> 200,
                                       kind |-> "versions_page",
                                       body |-> found]
                /\ pc[p] = "done" =>
                       resp[p].kind \in {"versions_page", "all_versions_page",
                                         "package_not_found", "HTTPError"}

\* The range >=1.0.0 <2.0.0 matches one of the versions 0.9.0, 1.0.0 and
\* 2.0.0, and the request has been answered with the listing of 1.0.0.
C9_Witness ==
    \E p \in Procs :
        /\ spec[p] = RANGE_1_TO_2
        /\ registry.versions = <<V090, V100, V200>>
        /\ pc[p] = "done" /\ resp[p].kind = "versions_page"
        /\ resp[p].body = <<V100>>

\* C10: "all" resolves to the keys of `versions` and "dist-tags" to the
\* versions the dist-tags point at, never designated, also when a dist-tag
\* has the name of the literal.
C10_LiteralsWin ==
    \A p \in Procs :
        pc[p] = "resolved" =>
            /\ spec[p] = ALL =>
                   feasible[p] = [versions |-> registry.versions,
                                  version_is_designated |-> FALSE]
            /\ spec[p] = DIST_TAGS =>
                   /\ Len(feasible[p].versions) = Len(registry.dist_tags)
                   /\ \A i \in 1..Len(registry.dist_tags) :
                          feasible[p].versions[i] = registry.dist_tags[i][2]
                   /\ ~feasible[p].version_is_designated

\* "all" has been resolved against a document with a dist-tag named "all".
C10_Witness ==
    \E p \in Procs :
        /\ pc[p] = "resolved" /\ spec[p] = ALL
        /\ registry.versions # <<>>
        /\ \E i \in 1..Len(registry.dist_tags) :
               registry.dist_tags[i][1] = ALL

\* The request of worker p was resolved through a dist-tag that points at a
\* version that is no key of `versions`.
ViaDanglingTag(p) ==
    /\ IsTagSpec(spec[p])
    /\ feasible[p].version_is_designated
    /\ feasible[p].versions[1] \notin Elems(registry.versions)

\* C11: a request resolved through a dist-tag whose target is no key of
\* `versions` ends with a client-fault status (4xx), with the tarball of
\* that local name cached or not.
C11_DanglingTagIsNotFound ==
    \A p \in Procs :
        (pc[p] = "done" /\ ViaDanglingTag(p)) =>
            resp[p].status \in 400..499

\* C12: a request whose resolution yields no version is answered with the
\* listing of all versions under status 400, in one step that leaves the
\* cache folder as it is and does no cache I/O; and
\* download_and_unpack_tarball runs only for a designated result of exactly
\* one version.
C12_EmptyResolutionFallsBack ==
    /\ [][\A p \in Procs :
            ( /\ pc[p] = "resolved" /\ pc'[p] # "resolved"
              /\ feasible[p].versions = <<>> )
            => /\ pc'[p] = "done"
               /\ resp'[p] = [status |-> 400, kind |-> "all_versions_page",
                              body |-> registry.versions]
               /\ log'[p] = <<>>
               /\ tarball' = tarball /\ dir' = dir]_vars
    /\ [](\A p \in Procs :
            (InDownload(p) \/ pc[p] = "give" \/ log[p] # <<>>) =>
                /\ feasible[p].version_is_designated
                /\ Len(feasible[p].versions) = 1)

\* An unknown dist-tag has been answered with the fallback listing, the
\* cache folder holding version 2.0.0 as before.
C12_Witness ==
    \E p \in Procs :
        /\ pc[p] = "done" /\ spec[p] = NEXT
        /\ NEXT \notin Keys(registry.dist_tags)
        /\ resp[p].kind = "all_versions_page"
        /\ registry.versions = <<V100, V200>>
        /\ tarball[LocalName(PACKAGE, V200)] = Cached

\* The name-and-version segment of a path: the text between the leading
\* "/" and the next "/", or the end of the path.
Segment(path) ==
    LET slashes == {j \in 2..Len(path) : path[j] = "/"}
        end == IF slashes = {} THEN Len(path) + 1
               ELSE CHOOSE j \in slashes : \A k \in slashes : j <= k
    IN  [text |-> SubSeq(path, 2, end - 1),
         rest |-> SubSeq(path, end, Len(path))]
Ats(text) == {i \in 1..Len(text) : text[i] = "@"}

\* The segment has an empty package-name side, or one "@" with an empty
\* version side, or more than one "@".
Malformed(path) ==
    LET text == Segment(path).text
    IN  \/ text = <<>>
        \/ text[1] = "@"
        \/ Cardinality(Ats(text)) = 1 /\ text[Len(text)] = "@"
        \/ Cardinality(Ats(text)) > 1

\* C13: PathInfo.make fails, with RequestNotValidError 400, exactly on the
\* paths whose first segment has an empty package-name side, one "@" with
\* an empty version side, or more than one "@"; what follows the segment
\* has no part in it.
C13_MalformedIffBadSegment ==
    path_info # NotParsed =>
        /\ path_info.raised \in {"none", "RequestNotValidError"}
        /\ path_info.raised = "RequestNotValidError" <=> Malformed(abs_path)
        /\ path_info.raised = "RequestNotValidError" =>
               path_info.status_code = 400

\* A path with "@" characters in its object path, and none in its first
\* segment, has been parsed without a failure.
C13_Witness ==
    /\ abs_path = <<"/", "a", "/", "@", "@">>
    /\ path_info # NotParsed
    /\ path_info.raised = "none"

\* Every segment of the object path r is a name: r has no empty and no "."
\* segment, and so no trailing "/".
Tidy(r) ==
    \A i \in 1..Len(r) :
        r[i] = "/" =>
            /\ i < Len(r)
            /\ r[i + 1] # "/"
            /\ ~(r[i + 1] = "." /\ (i + 1 = Len(r) \/ r[i + 2] = "/"))
\* The names along a path.
Names(r) ==
    LET IsName(seg) == seg # <<>> /\ seg # <<".">>
    IN  SelectSeq(SplitOn(r, "/"), IsName)

\* C14: when PathInfo.make succeeds, package_name is the text before "@"
\* in the first segment and version_spec_str the text after it, or
\* "latest" without an "@"; obj_absolute_path is None exactly when the path
\* has no "/" after its first character, and otherwise is the rest of the
\* path from that "/" (without its trailing "/"), a directory exactly when
\* the path ends with "/".
C14_ParsedFields ==
    (path_info # NotParsed /\ path_info.raised = "none") =>
        LET text == Segment(abs_path).text
            rest == Segment(abs_path).rest
            o == path_info.obj_absolute_path
        IN  /\ Count(path_info.package_name, "@") = 0
            /\ IF Ats(text) = {}
               THEN /\ path_info.package_name = text
                    /\ path_info.version_spec_str = LATEST
               ELSE path_info.package_name \o <<"@">>
                        \o path_info.version_spec_str = text
            /\ o = <<>> <=> \A j \in 2..Len(abs_path) : abs_path[j] # "/"
            /\ o # <<>> =>
                /\ o[1].is_dir <=> abs_path[Len(abs_path)] = "/"
                /\ Tidy(rest) => o[1].str = rest
                /\ ( /\ Len(rest) > 1 /\ rest[Len(rest)] = "/"
                     /\ Tidy(SubSeq(rest, 1, Len(rest) - 1)) )
                       => o[1].str = SubSeq(rest, 1, Len(rest) - 1)
                /\ rest = <<"/">> => o[1].str = <<"/">>
                /\ Names(o[1].str) = Names(rest)
                /\ o[1].str[1] = "/"

\* '/lodash@>=1.0.0/lib/' has been parsed: lodash, >=1.0.0, and /lib as a
\* directory.
C14_Witness ==
    /\ abs_path = LODASH_PATH
    /\ path_info = [raised |-> "none",
                    package_name |-> <<"l", "o", "d", "a", "s", "h">>,
                    version_spec_str |-> <<">", "=", "1", ".", "0", ".", "0">>,
                    obj_absolute_path |->
                        << [str |-> <<"/", "l", "i", "b">>,
                            is_dir |-> TRUE] >>]

\* C15: reverse_cmp(semver_cmp)(x, y) is semver_cmp(y, x) for all the
\* versions of a table, and the rows of the table go from the highest
\* version to the lowest.
C15_ReverseCmpReverses ==
    table # NotRendered =>
        /\ \A x, y \in Elems(unsorted) :
               reverse_cmp(SemverCmp)[<<x, y>>] = semver_cmp(y, x)
        /\ \A i, j \in 1..Len(table) :
               i < j => semver_cmp(table[i], table[j]) > 0

====
